---------------------------- MODULE Spec2Model ----------------------------
(***************************************************************************)
(* A model of the log-structured filesystem of src/src: the block device   *)
(* (disk.c), the log writer and checkpoint (log.c), the inode map and      *)
(* inode operations (inode.c), the segment cleaner (gc.c), the formatter   *)
(* (mkfs_lfs.c) and the request handlers (lfs.c).                          *)
(*                                                                         *)
(* Scale.  A disk block is a row of BLOCK_SIZE cells.  Every uint32_t      *)
(* field of an on-disk structure occupies one cell, and so does one byte   *)
(* of file data; a file name (a short string, NUL included) occupies the   *)
(* one name cell of its directory entry.  The geometry of the source       *)
(* (1024 blocks, 32 blocks a segment, 256 inodes, 10 direct pointers,      *)
(* cleaning once fewer than 700 blocks are free) is scaled down, keeping   *)
(* the order relations the code depends on:                                *)
(*   formatter tail (6) < LOG_START_BLOCK < BLOCKS_PER_SEGMENT,            *)
(*   a segment summary (2 cells an entry) fits in a block,                 *)
(*   the root directory fills up before the inode map does,                *)
(*   cleaning starts once the tail is past the first whole log segment.    *)
(***************************************************************************)
EXTENDS Integers, Sequences, FiniteSets, TLC

VARIABLES disk, sb, inode_map, log_tail, mounted, last, gcpre, crashpre, nops

vars == <<disk, sb, inode_map, log_tail, mounted, last, gcpre, crashpre, nops>>

(***************************************************************************)
(* Constants of lfs.h, scaled.                                             *)
(***************************************************************************)
LFS_MAGIC == 77
BLOCKS_PER_SEGMENT == 8
BLOCK_SIZE == 2 * BLOCKS_PER_SEGMENT + 4
TOTAL_BLOCKS == 32
INODE_MAP_BLOCK == 1
INODE_MAP_SIZE == 4
LOG_START_BLOCK == 7
SEGMENT_COUNT == TOTAL_BLOCKS \div BLOCKS_PER_SEGMENT
GC_THRESHOLD == 15
INODE_TYPE_FILE == 1
INODE_TYPE_DIR == 2
MAX_DIRECT_PTRS == 2
\* sizeof(struct lfs_dirent): the inode number, the name, padding
DIRENT_SIZE == 5

\* errno values the handlers return (negated)
EPERM == 1
ENOENT == 2
EIO == 5
EEXIST == 17
ENOTDIR == 20
EISDIR == 21
EFBIG == 27
ENOSPC == 28
ENAMETOOLONG == 36

\* File names, as the content of a name cell; 0 is the empty string.
NameDot == 51
NameDotDot == 52
NameHello == 53
NameA == 54
NameB == 55
\* Paths: "/" and "/<name>"; PathNested is a path with an embedded '/',
\* PathLong one whose name has MAX_NAME_LEN characters or more.
PathRoot == 0
PathNested == 60
PathLong == 61

\* Bounds of the exploration
MaxOps == 5
MaxCrashPoint == 6

Cells == 0 .. (BLOCK_SIZE - 1)
Blocks == 0 .. (TOTAL_BLOCKS - 1)
Inos == 0 .. (INODE_MAP_SIZE - 1)
ZeroBlock == [c \in Cells |-> 0]
NoBlock == TOTAL_BLOCKS
NoSnapshot == [valid |-> FALSE]

Min(a, b) == IF a < b THEN a ELSE b
Max(a, b) == IF a > b THEN a ELSE b

(***************************************************************************)
(* struct lfs_superblock / lfs_inode / lfs_dirent / lfs_segment_summary:   *)
(* the cell each field occupies in its block.                              *)
(***************************************************************************)
SB_MAGIC == 0
SB_TOTAL == 2
SB_TAIL == 5
I_INO == 0
I_TYPE == 1
I_SIZE == 2
I_NLINKS == 3
I_DIRECT == 4

Direct(inode, k) == inode[I_DIRECT + k]

\* entry[i] of a directory block
DirentIno(buf, i) == buf[DIRENT_SIZE * i]
DirentName(buf, i) == buf[DIRENT_SIZE * i + 1]

(***************************************************************************)
(* The handlers run on a record st that threads g_state and the disk:      *)
(*   disk, sb, imap, tail   the device and struct lfs_state                *)
(*   ret                    the value the last call returned               *)
(*   nw                     disk writes done so far in this request        *)
(*   stop                   the process is killed at write number stop     *)
(*   dead                   the process has died (killed, or aborted)      *)
(*   ubabort                whether an out-of-bounds inode_map read aborts *)
(*   ubhit                  an out-of-bounds inode_map read has happened   *)
(*   fail                   the disk write of this number fails (pwrite    *)
(*                          returns an error and writes nothing)           *)
(*   werr                   what the last disk_write returned              *)
(* and three records of what the request did:                              *)
(*   gcpre                  g_state and the disk as the last gc_collect    *)
(*                          of this request found them                     *)
(*   inplace                a write changed the content of a log block     *)
(*                          that was live when it was written              *)
(*   concl, cw              the handler has reached its concluding         *)
(*                          checkpoint; a write of it has been done        *)
(*   ckpt                   how that checkpoint ended: "none", "ok",       *)
(*                          "failed"                                       *)
(*   gcerr                  a gc_collect of this request returned -1       *)
(*   bad                    the block whose reads fail (pread returns an   *)
(*                          error and leaves the buffer as it was)         *)
(*   na                     appends of this request that succeeded         *)
(***************************************************************************)
NoStop == 1000

Start(stop, ubabort) ==
    [disk |-> disk, sb |-> sb, imap |-> inode_map, tail |-> log_tail,
     nw |-> 0, stop |-> stop, dead |-> FALSE, ubabort |-> ubabort,
     ubhit |-> FALSE, ret |-> 0, gcpre |-> NoSnapshot, inplace |-> FALSE,
     concl |-> FALSE, cw |-> FALSE, fail |-> NoStop, werr |-> 0,
     ckpt |-> "none", gcerr |-> FALSE, bad |-> NoBlock, na |-> 0]

\* a request during which every read of block b fails
StartBad(b) == [Start(NoStop, FALSE) EXCEPT !.bad = b]

\* a request during which disk write number fail fails
StartFailing(fail) == [Start(NoStop, FALSE) EXCEPT !.fail = fail]

\* gc.c is_block_live: the inode map points at block, or a direct pointer
\* of a mapped inode does
\* disk.c: pread/pwrite of one block; a block past the image reads short
disk_read_ok(st, block) == block \in Blocks /\ block # st.bad

is_block_live(st, block) ==
    \/ \E i \in Inos : st.imap[i] = block
    \/ \E i \in Inos :
         /\ st.imap[i] # 0
         /\ disk_read_ok(st, st.imap[i])
         /\ \E j \in 0 .. (MAX_DIRECT_PTRS - 1) :
              Direct(st.disk[st.imap[i]], j) = block

disk_read(st, block, buf) ==
    IF disk_read_ok(st, block) THEN st.disk[block] ELSE buf

disk_write(st, block, buf) ==
    IF st.dead THEN st
    ELSE IF st.nw >= st.stop THEN [st EXCEPT !.dead = TRUE]
    ELSE IF st.nw = st.fail THEN [st EXCEPT !.nw = @ + 1, !.werr = -1]
    ELSE [st EXCEPT !.disk[block] = buf, !.nw = @ + 1, !.cw = st.concl,
                    !.werr = 0,
                    !.inplace = @ \/ (/\ block >= LOG_START_BLOCK
                                      /\ st.disk[block] # buf
                                      /\ is_block_live(st, block))]

get_summary_block(block) ==
    (block \div BLOCKS_PER_SEGMENT) * BLOCKS_PER_SEGMENT

\* log_append_ex as a circular log: at the end of the device the append
\* goes to the first log block instead of being refused
log_append_ex_wraps(st, buf, inode_no, block_idx) ==
    LET block == IF st.tail >= st.sb[SB_TOTAL] THEN LOG_START_BLOCK
                 ELSE st.tail
        sum_block == get_summary_block(block)
        offset == block - get_summary_block(block)
        UpdateSummary(s1) ==
          IF offset # 0
          THEN disk_write(s1, sum_block,
                          [disk_read(s1, sum_block, ZeroBlock) EXCEPT
                             ![2 * offset] = inode_no,
                             ![2 * offset + 1] = block_idx])
          ELSE s1
        Advance(s2) ==
          [s2 EXCEPT !.tail = block + 1, !.sb[SB_TAIL] = block + 1,
                     !.ret = block]
        Written(s1) ==
          IF s1.werr # 0 THEN [s1 EXCEPT !.ret = -1]
          ELSE Advance(UpdateSummary(s1))
    IN Written(disk_write(st, block, buf))

\* Every intermediate state of a handler is bound as the parameter of a
\* local operator, so that each call appears once in the text.
\* a log_append_ex that moves the tail before it knows whether the write of
\* the block succeeded
log_append_ex_advancing(st, buf, inode_no, block_idx) ==
    IF st.tail >= st.sb[SB_TOTAL] THEN [st EXCEPT !.ret = -1]
    ELSE
      LET block == st.tail
          offset == st.tail - get_summary_block(st.tail)
          UpdateSummary(s1) ==
            IF offset # 0
            THEN disk_write(s1, get_summary_block(block),
                            [disk_read(s1, get_summary_block(block),
                                       ZeroBlock) EXCEPT
                               ![2 * offset] = inode_no,
                               ![2 * offset + 1] = block_idx])
            ELSE s1
          Written(s1) ==
            IF s1.werr # 0 THEN [s1 EXCEPT !.ret = -1]
            ELSE [UpdateSummary(s1) EXCEPT !.ret = block, !.na = @ + 1]
      IN Written(disk_write([st EXCEPT !.tail = block + 1,
                                       !.sb[SB_TAIL] = block + 1],
                            block, buf))

log_append_ex(st, buf, inode_no, block_idx) ==
    IF st.tail >= st.sb[SB_TOTAL] THEN [st EXCEPT !.ret = -1]
    ELSE
      LET block == st.tail
          sum_block == get_summary_block(st.tail)
          offset == st.tail - get_summary_block(st.tail)
          UpdateSummary(s1) ==
            IF offset # 0
            THEN disk_write(s1, sum_block,
                            [disk_read(s1, sum_block, ZeroBlock) EXCEPT
                               ![2 * offset] = inode_no,
                               ![2 * offset + 1] = block_idx])
            ELSE s1
          Advance(s2) ==
            [s2 EXCEPT !.tail = block + 1, !.sb[SB_TAIL] = block + 1,
                       !.ret = block, !.na = @ + 1]
          Written(s1) ==
            IF s1.werr # 0 THEN [s1 EXCEPT !.ret = -1]
            ELSE Advance(UpdateSummary(s1))
      IN Written(disk_write(st, block, buf))

log_append(st, buf) == log_append_ex(st, buf, 0, 0)

\* log_checkpoint without the write of the superblock
log_checkpoint_map_only(st) ==
    LET imap_block == [c \in Cells |->
                         IF c < INODE_MAP_SIZE THEN st.imap[c] ELSE 0]
        Done(s1) ==
          [s1 EXCEPT !.ret = 0, !.ckpt = IF s1.concl THEN "ok" ELSE @]
    IN Done(disk_write(st, INODE_MAP_BLOCK, imap_block))

log_checkpoint(st) ==
    LET imap_block == [c \in Cells |->
                         IF c < INODE_MAP_SIZE THEN st.imap[c] ELSE 0]
        Done(s2) ==
          [s2 EXCEPT !.ret = IF s2.werr # 0 THEN -1 ELSE 0,
                     !.ckpt = IF ~s2.concl THEN @
                              ELSE IF s2.werr # 0 THEN "failed" ELSE "ok"]
        MapWritten(s1) ==
          IF s1.werr # 0
          THEN [s1 EXCEPT !.ret = -1,
                          !.ckpt = IF s1.concl THEN "failed" ELSE @]
          ELSE Done(disk_write(s1, 0, s1.sb))
    IN MapWritten(disk_write(st, INODE_MAP_BLOCK, imap_block))

(***************************************************************************)
(* inode.c.  struct lfs_inode is padded to a whole block, so an inode in   *)
(* memory is the block it was read from.                                   *)
(***************************************************************************)
inode_read_ok(st, ino) ==
    /\ ino \in Inos
    /\ st.imap[ino] # 0
    /\ disk_read_ok(st, st.imap[ino])

\* memcpy(out, buf, sizeof(struct lfs_inode)): the fields of the inode and
\* nothing of the rest of the block
inode_read(st, ino) ==
    [c \in 0 .. (I_DIRECT + MAX_DIRECT_PTRS - 1) |-> st.disk[st.imap[ino]][c]]
      @@ ZeroBlock

inode_write(st, in) ==
    IF in[I_INO] >= INODE_MAP_SIZE THEN [st EXCEPT !.ret = -1]
    ELSE LET Record(s1) ==
               IF s1.ret < 0 THEN [s1 EXCEPT !.ret = -1]
               ELSE [s1 EXCEPT !.imap[in[I_INO]] = s1.ret, !.ret = 0]
         IN Record(log_append(st, in))

inode_alloc(st) ==
    LET free == {i \in 1 .. (INODE_MAP_SIZE - 1) : st.imap[i] = 0}
    IN IF free = {} THEN -1
       ELSE CHOOSE i \in free : \A j \in free : i <= j

(***************************************************************************)
(* lfs.c: path resolution and the read path.                               *)
(***************************************************************************)
\* the entries path_to_inode scans: n = root.size / sizeof(struct lfs_dirent),
\* of which those past the end of the block buffer are not modelled
DirSlots(size) ==
    0 .. (Min(size \div DIRENT_SIZE, BLOCK_SIZE \div DIRENT_SIZE) - 1)

\* the first entry of buf, among the first n, that is in use and named name
DirLookup(buf, size, name) ==
    LET hits == {i \in DirSlots(size) :
                   DirentIno(buf, i) # 0 /\ DirentName(buf, i) = name}
    IN IF hits = {} THEN -ENOENT
       ELSE DirentIno(buf, CHOOSE i \in hits : \A j \in hits : i <= j)

path_to_inode(st, path) ==
    IF path = PathRoot THEN 0
    ELSE IF path = PathNested THEN -ENOENT
    ELSE IF ~inode_read_ok(st, 0) THEN -EIO
    ELSE IF ~disk_read_ok(st, Direct(inode_read(st, 0), 0)) THEN -EIO
    ELSE DirLookup(st.disk[Direct(inode_read(st, 0), 0)],
                   inode_read(st, 0)[I_SIZE], path)

\* the bytes lfs_read copies out of inode ino: [ret, data], data a sequence
\* of ret cells
ReadInode(st, ino, size, offset) ==
    IF ino < 0 THEN [ret |-> ino, data |-> <<>>]
    ELSE IF ~inode_read_ok(st, ino) THEN [ret |-> -EIO, data |-> <<>>]
    ELSE LET inode == inode_read(st, ino)
         IN IF inode[I_TYPE] # INODE_TYPE_FILE
            THEN [ret |-> -EISDIR, data |-> <<>>]
            ELSE IF offset >= inode[I_SIZE] THEN [ret |-> 0, data |-> <<>>]
            ELSE
              LET n == IF offset + size > inode[I_SIZE]
                       THEN inode[I_SIZE] - offset ELSE size
                  Byte(p) ==
                    LET block_idx == p \div BLOCK_SIZE
                    IN IF Direct(inode, block_idx) # 0
                       THEN disk_read(st, Direct(inode, block_idx),
                                      ZeroBlock)[p % BLOCK_SIZE]
                       ELSE 0
              IN [ret |-> n, data |-> [k \in 1 .. n |-> Byte(offset + k - 1)]]

lfs_read(st, path, size, offset) ==
    ReadInode(st, path_to_inode(st, path), size, offset)

\* lfs_getattr: [ret, st_ino, st_size, st_nlink, isdir]
GetattrInode(st, ino) ==
    IF ino < 0 THEN [ret |-> ino]
    ELSE IF ~inode_read_ok(st, ino) THEN [ret |-> -EIO]
    ELSE LET inode == inode_read(st, ino)
         IN [ret |-> 0, st_ino |-> inode[I_INO], st_size |-> inode[I_SIZE],
             st_nlink |-> IF inode[I_TYPE] = INODE_TYPE_DIR THEN 2
                          ELSE IF inode[I_NLINKS] # 0 THEN inode[I_NLINKS]
                          ELSE 1,
             isdir |-> inode[I_TYPE] = INODE_TYPE_DIR]

lfs_getattr(st, path) == GetattrInode(st, path_to_inode(st, path))

\* lfs_readdir: the names handed to the filler, "." and ".." first
ReaddirInode(st, ino) ==
    IF ino < 0 THEN [ret |-> ino, names |-> {}]
    ELSE IF ~inode_read_ok(st, ino) THEN [ret |-> -EIO, names |-> {}]
    ELSE LET dir == inode_read(st, ino)
         IN IF dir[I_TYPE] # INODE_TYPE_DIR
            THEN [ret |-> -ENOTDIR, names |-> {}]
            ELSE IF ~disk_read_ok(st, Direct(dir, 0))
            THEN [ret |-> -EIO, names |-> {NameDot, NameDotDot}]
            ELSE [ret |-> 0,
                  names |-> {NameDot, NameDotDot} \cup
                    {DirentName(st.disk[Direct(dir, 0)], i) : i \in
                       {j \in DirSlots(dir[I_SIZE]) :
                          DirentIno(st.disk[Direct(dir, 0)], j) # 0}}]

lfs_readdir(st, path) == ReaddirInode(st, path_to_inode(st, path))

(***************************************************************************)
(* gc.c                                                                    *)
(***************************************************************************)
gc_should_run(st) ==
    st.sb[SB_TOTAL] - st.tail < GC_THRESHOLD

\* Pass 1: the dead blocks counted in a segment, and the segment chosen
gc_dead(st, seg) ==
    Cardinality({i \in 1 .. (BLOCKS_PER_SEGMENT - 1) :
                   /\ seg * BLOCKS_PER_SEGMENT + i < st.tail
                   /\ ~is_block_live(st, seg * BLOCKS_PER_SEGMENT + i)})

gc_candidates(st) ==
    {seg \in 0 .. (SEGMENT_COUNT - 1) :
        /\ seg * BLOCKS_PER_SEGMENT >= LOG_START_BLOCK
        /\ seg * BLOCKS_PER_SEGMENT < st.tail
        /\ disk_read_ok(st, seg * BLOCKS_PER_SEGMENT)}

\* the first candidate with the most dead blocks; -1 when there is none
BestOf(cand, dead) ==
    IF cand = {} THEN -1
    ELSE CHOOSE s \in cand :
           \A t \in cand :
              \/ dead[t] < dead[s]
              \/ (dead[t] = dead[s] /\ s <= t)

gc_best_seg(st) ==
    BestOf(gc_candidates(st),
           [seg \in 0 .. (SEGMENT_COUNT - 1) |-> gc_dead(st, seg)])

\* Pass 2, after the copy of a live block has been appended as s1.ret:
\* point the inode map, or the owner's direct pointer, at the copy
gc_repoint(s1, block, inode_no, block_idx) ==
    IF inode_no \notin Inos
    THEN \* inode_map[inode_no] is read past the array
         [s1 EXCEPT !.ubhit = TRUE, !.dead = @ \/ s1.ubabort]
    ELSE IF s1.imap[inode_no] = block
    THEN [s1 EXCEPT !.imap[inode_no] = s1.ret]
    ELSE IF inode_read_ok(s1, inode_no)
    THEN inode_write(s1, IF block_idx < MAX_DIRECT_PTRS
                         THEN [inode_read(s1, inode_no) EXCEPT
                                 ![I_DIRECT + block_idx] = s1.ret]
                         ELSE inode_read(s1, inode_no))
    ELSE s1

\* Pass 2: copy the live blocks of the segment to the tail.  sum is the
\* summary as read before the loop; ret = -1 once an append has failed.
RECURSIVE gc_copy(_, _, _, _)
gc_copy(st, seg_start, sum, i) ==
    IF i >= BLOCKS_PER_SEGMENT \/ seg_start + i >= st.tail \/ st.dead
    THEN [st EXCEPT !.ret = 0]
    ELSE IF ~is_block_live(st, seg_start + i)
            \/ ~disk_read_ok(st, seg_start + i)
    THEN gc_copy(st, seg_start, sum, i + 1)
    ELSE LET Moved(s1) ==
               IF s1.ret < 0 THEN [s1 EXCEPT !.ret = -1]
               ELSE gc_copy(gc_repoint(s1, seg_start + i, sum[2 * i],
                                       sum[2 * i + 1]),
                            seg_start, sum, i + 1)
         IN Moved(log_append_ex(st, st.disk[seg_start + i], sum[2 * i],
                                sum[2 * i + 1]))

\* Pass 3: zero the blocks of the segment
RECURSIVE gc_zero(_, _, _)
gc_zero(st, seg_start, i) ==
    IF i >= BLOCKS_PER_SEGMENT \/ seg_start + i >= st.sb[SB_TOTAL] THEN st
    ELSE gc_zero(disk_write(st, seg_start + i, ZeroBlock), seg_start, i + 1)

\* a rewind that does not ask whether the cleaned segment is the one the
\* tail is in
gc_rewind_always(st, seg_start) ==
    [st EXCEPT !.tail = seg_start, !.sb[SB_TAIL] = seg_start]

gc_rewind(st, seg_start) ==
    IF seg_start + BLOCKS_PER_SEGMENT >= st.tail
    THEN [st EXCEPT !.tail = seg_start, !.sb[SB_TAIL] = seg_start]
    ELSE st

\* Passes 2 and 3, the rewind and the checkpoint, for the chosen segment
gc_clean(st, seg_start) ==
    LET Reclaim(s2) ==
          IF s2.ret < 0 THEN s2
          ELSE [log_checkpoint(gc_rewind(gc_zero(s2, seg_start, 0),
                                         seg_start))
                  EXCEPT !.ret = 0]
    IN Reclaim(gc_copy(st, seg_start, disk_read(st, seg_start, ZeroBlock), 1))

\* gc_pass without the test of best_dead == 0
gc_pass_cleans_always(st, best_seg) ==
    IF best_seg < 0 THEN [st EXCEPT !.ret = 0]
    ELSE gc_clean(st, best_seg * BLOCKS_PER_SEGMENT)

gc_pass(st, best_seg) ==
    IF best_seg < 0 THEN [st EXCEPT !.ret = 0]
    ELSE IF gc_dead(st, best_seg) = 0 THEN [st EXCEPT !.ret = 0]
    ELSE gc_clean(st, best_seg * BLOCKS_PER_SEGMENT)

gc_collect(st) ==
    LET Returned(r) == [r EXCEPT !.gcerr = @ \/ r.ret < 0]
    IN Returned(gc_pass([st EXCEPT !.gcpre = [valid |-> TRUE,
                                              disk |-> st.disk,
                                              imap |-> st.imap,
                                              tail |-> st.tail,
                                              sb |-> st.sb]],
                        gc_best_seg(st)))

(***************************************************************************)
(* lfs.c: the write path.  A handler returns st with st.ret its result.    *)
(***************************************************************************)
NewInode(ino) ==
    [c \in Cells |-> IF c = I_INO THEN ino
                     ELSE IF c = I_TYPE THEN INODE_TYPE_FILE
                     ELSE IF c = I_NLINKS THEN 1
                     ELSE 0]

\* entries[slot].inode_no = ino; strncpy(entries[slot].name, name, ...)
SetDirent(dbuf, slot, ino, name) ==
    [c \in Cells |->
       IF c = DIRENT_SIZE * slot THEN ino
       ELSE IF c = DIRENT_SIZE * slot + 1 THEN name
       ELSE IF c > DIRENT_SIZE * slot + 1 /\ c < DIRENT_SIZE * (slot + 1) - 1
       THEN 0
       ELSE dbuf[c]]

\* lfs_create from the read of the root inode on: the new directory block,
\* the root inode, the checkpoint
create_link(s2, ino, name, root) ==
    IF ~disk_read_ok(s2, Direct(root, 0)) THEN [s2 EXCEPT !.ret = -EIO]
    ELSE IF (root[I_SIZE] \div DIRENT_SIZE) * DIRENT_SIZE >= BLOCK_SIZE
    THEN [s2 EXCEPT !.ret = -ENOSPC]
    ELSE
      LET Linked(s4) ==
            IF s4.ret # 0 THEN [s4 EXCEPT !.ret = -EIO]
            ELSE log_checkpoint([s4 EXCEPT !.concl = TRUE])
          Appended(s3) ==
            IF s3.ret < 0 THEN [s3 EXCEPT !.ret = -ENOSPC]
            ELSE Linked(inode_write(s3, [root EXCEPT
                                           ![I_DIRECT] = s3.ret,
                                           ![I_SIZE] = @ + DIRENT_SIZE]))
      IN Appended(log_append_ex(
                    s2, SetDirent(s2.disk[Direct(root, 0)],
                                  root[I_SIZE] \div DIRENT_SIZE, ino, name),
                    0, 0))

create_inode(st, ino, name) ==
    IF ino < 0 THEN [st EXCEPT !.ret = -ENOSPC]
    ELSE
      LET Written(s2) ==
            IF s2.ret # 0 THEN [s2 EXCEPT !.ret = -EIO]
            ELSE IF ~inode_read_ok(s2, 0) THEN [s2 EXCEPT !.ret = -EIO]
            ELSE create_link(s2, ino, name, inode_read(s2, 0))
          Collected(s1) == Written(inode_write(s1, NewInode(ino)))
      IN IF gc_should_run(st) THEN Collected(gc_collect(st))
         ELSE Collected(st)

\* lfs_create without the test that the name is free
lfs_create_unchecked(st, path) ==
    IF path = PathNested THEN [st EXCEPT !.ret = -EPERM]
    ELSE IF path = PathLong THEN [st EXCEPT !.ret = -ENAMETOOLONG]
    ELSE create_inode(st, inode_alloc(st), path)

lfs_create(st, path) ==
    IF path = PathNested THEN [st EXCEPT !.ret = -EPERM]
    ELSE IF path = PathLong THEN [st EXCEPT !.ret = -ENAMETOOLONG]
    ELSE IF path_to_inode(st, path) # -ENOENT THEN [st EXCEPT !.ret = -EEXIST]
    ELSE create_inode(st, inode_alloc(st), path)

\* the caller's buffer: byte i of a payload
Payload(fill, i) == fill + i

\* data with the caller's bytes that fall into block blk laid over it
Overlay(data, blk, fill, size, offset) ==
    LET blk_start == blk * BLOCK_SIZE
        write_start == Max(offset, blk_start)
        write_end == Min(offset + size, blk_start + BLOCK_SIZE)
    IN [c \in Cells |->
          IF blk_start + c >= write_start /\ blk_start + c < write_end
          THEN Payload(fill, blk_start + c - offset)
          ELSE data[c]]

\* the existing content of logical block blk of inode
ExistingBlock(st, inode, blk) ==
    IF Direct(inode, blk) # 0 THEN disk_read(st, Direct(inode, blk), ZeroBlock)
    ELSE ZeroBlock

\* the loop of lfs_write over the touched blocks: [st, inode], st.ret < 0
\* when the request has failed.  After a cleaning pass the inode is read
\* again and takes the place of the one held so far.
RECURSIVE write_blocks(_, _, _, _, _, _, _, _)
write_blocks(st, inode, ino, fill, size, offset, blk, last_blk) ==
    IF blk > last_blk THEN [st |-> [st EXCEPT !.ret = 0], inode |-> inode]
    ELSE
      LET Appended(s2, inode1) ==
            IF s2.ret < 0
            THEN [st |-> [s2 EXCEPT !.ret = -ENOSPC], inode |-> inode1]
            ELSE write_blocks(s2, [inode1 EXCEPT ![I_DIRECT + blk] = s2.ret],
                              ino, fill, size, offset, blk + 1, last_blk)
          Put(s1, inode1) ==
            Appended(log_append_ex(
                       s1, Overlay(ExistingBlock(s1, inode1, blk), blk, fill,
                                   size, offset),
                       ino, blk),
                     inode1)
          Collected(s1) ==
            IF ~inode_read_ok(s1, ino)
            THEN [st |-> [s1 EXCEPT !.ret = -EIO], inode |-> inode]
            ELSE Put(s1, inode_read(s1, ino))
      IN IF gc_should_run(st) THEN Collected(gc_collect(st))
         ELSE Put(st, inode)

\* lfs_write once the inode is read and the size clamped
write_inode(st, ino, inode0, fill, size, offset) ==
    LET Finished(r) ==
          IF r.st.ret < 0 THEN r.st
          ELSE LET Checkpointed(s4) ==
                     IF s4.ret # 0 THEN [s4 EXCEPT !.ret = -EIO]
                     ELSE [s4 EXCEPT !.ret = size]
                   Written(s3) ==
                     IF s3.ret # 0 THEN [s3 EXCEPT !.ret = -EIO]
                     ELSE Checkpointed(
                            log_checkpoint([s3 EXCEPT !.concl = TRUE]))
               IN Written(inode_write(r.st,
                                      [r.inode EXCEPT
                                         ![I_SIZE] = Max(@, offset + size)]))
    IN Finished(write_blocks(st, inode0, ino, fill, size, offset,
                             offset \div BLOCK_SIZE,
                             (offset + size - 1) \div BLOCK_SIZE))

\* write_ino with the test of the offset off by one
write_ino_off_by_one(st, ino, fill, size, offset) ==
    IF ino < 0 THEN [st EXCEPT !.ret = ino]
    ELSE IF ~inode_read_ok(st, ino) THEN [st EXCEPT !.ret = -EIO]
    ELSE IF inode_read(st, ino)[I_TYPE] # INODE_TYPE_FILE
    THEN [st EXCEPT !.ret = -EISDIR]
    ELSE IF offset > MAX_DIRECT_PTRS * BLOCK_SIZE
    THEN [st EXCEPT !.ret = -EFBIG]
    ELSE write_inode(st, ino, inode_read(st, ino), fill,
                     IF offset + size > MAX_DIRECT_PTRS * BLOCK_SIZE
                     THEN MAX_DIRECT_PTRS * BLOCK_SIZE - offset ELSE size,
                     offset)

write_ino(st, ino, fill, size, offset) ==
    IF ino < 0 THEN [st EXCEPT !.ret = ino]
    ELSE IF ~inode_read_ok(st, ino) THEN [st EXCEPT !.ret = -EIO]
    ELSE IF inode_read(st, ino)[I_TYPE] # INODE_TYPE_FILE
    THEN [st EXCEPT !.ret = -EISDIR]
    ELSE IF offset >= MAX_DIRECT_PTRS * BLOCK_SIZE
    THEN [st EXCEPT !.ret = -EFBIG]
    ELSE write_inode(st, ino, inode_read(st, ino), fill,
                     IF offset + size > MAX_DIRECT_PTRS * BLOCK_SIZE
                     THEN MAX_DIRECT_PTRS * BLOCK_SIZE - offset ELSE size,
                     offset)

lfs_write(st, path, fill, size, offset) ==
    write_ino(st, path_to_inode(st, path), fill, size, offset)

truncate_ino(st, ino) ==
    IF ino < 0 THEN [st EXCEPT !.ret = ino]
    ELSE IF ~inode_read_ok(st, ino) THEN [st EXCEPT !.ret = -EIO]
    ELSE
      LET Written(s1) ==
            IF s1.ret # 0 THEN [s1 EXCEPT !.ret = -EIO]
            ELSE log_checkpoint([s1 EXCEPT !.concl = TRUE])
      IN Written(inode_write(
                   st, [c \in Cells |->
                          IF c = I_SIZE THEN 0
                          ELSE IF c >= I_DIRECT
                                  /\ c < I_DIRECT + MAX_DIRECT_PTRS THEN 0
                          ELSE inode_read(st, ino)[c]]))

lfs_truncate(st, path, size) ==
    IF size # 0 THEN [st EXCEPT !.ret = -EPERM]
    ELSE truncate_ino(st, path_to_inode(st, path))

\* lfs_init: the superblock and the inode map as read from the image
lfs_init_ok(d) == d[0][SB_MAGIC] = LFS_MAGIC

\* lfs_destroy: a last checkpoint before the device is closed
lfs_destroy(st) == log_checkpoint(st)

(***************************************************************************)
(* mkfs_lfs.c: the image the formatter writes.                             *)
(***************************************************************************)
MKFS_TAIL == 6
HELLO_LEN == 3

MkfsSuperblock ==
    [c \in Cells |-> CASE c = SB_MAGIC -> LFS_MAGIC
                       [] c = 1 -> BLOCK_SIZE
                       [] c = SB_TOTAL -> TOTAL_BLOCKS
                       [] c = 3 -> INODE_MAP_BLOCK
                       [] c = 4 -> LOG_START_BLOCK
                       [] c = SB_TAIL -> MKFS_TAIL
                       [] OTHER -> 0]

MkfsImap == [c \in Cells |-> CASE c = 0 -> 2 [] c = 1 -> 5 [] OTHER -> 0]

MkfsRootInode ==
    [c \in Cells |-> CASE c = I_INO -> 0
                       [] c = I_TYPE -> INODE_TYPE_DIR
                       [] c = I_SIZE -> 3 * DIRENT_SIZE
                       [] c = I_NLINKS -> 2
                       [] c = I_DIRECT -> 3
                       [] OTHER -> 0]

MkfsRootDir ==
    [c \in Cells |-> CASE c = 1 -> NameDot
                       [] c = DIRENT_SIZE + 1 -> NameDotDot
                       [] c = 2 * DIRENT_SIZE -> 1
                       [] c = 2 * DIRENT_SIZE + 1 -> NameHello
                       [] OTHER -> 0]

MkfsHelloData == [c \in Cells |-> IF c < HELLO_LEN THEN 70 + c ELSE 0]

MkfsHelloInode ==
    [c \in Cells |-> CASE c = I_INO -> 1
                       [] c = I_TYPE -> INODE_TYPE_FILE
                       [] c = I_SIZE -> HELLO_LEN
                       [] c = I_NLINKS -> 1
                       [] c = I_DIRECT -> 4
                       [] OTHER -> 0]

MkfsImage ==
    [b \in Blocks |-> CASE b = 0 -> MkfsSuperblock
                        [] b = 1 -> MkfsImap
                        [] b = 2 -> MkfsRootInode
                        [] b = 3 -> MkfsRootDir
                        [] b = 4 -> MkfsHelloData
                        [] b = 5 -> MkfsHelloInode
                        [] OTHER -> ZeroBlock]


(***************************************************************************)
(* The state machine.  Init is the formatter's image, mounted.  Each       *)
(* request is one step.  last records the request and what it did; phase   *)
(* follows the sequence create(p), write(p, 0, data), unmount, mount.      *)
(***************************************************************************)
ZeroImap == [i \in Inos |-> 0]

LoadImap(d) == [i \in Inos |-> d[INODE_MAP_BLOCK][i]]

Request(op, path, off, len, fill, phase) ==
    [op |-> op, path |-> path, off |-> off, len |-> len, fill |-> fill,
     ret |-> 0, phase |-> phase, inplace |-> FALSE, cw |-> FALSE,
     same |-> TRUE, ckpt |-> "none", gcerr |-> FALSE, bad |-> NoBlock, na |-> 0]

NoRequest == Request("init", 0, 0, 0, 0, 0)

\* what a mount of disk d would load
Durable(d) ==
    [valid |-> TRUE, disk |-> d, imap |-> LoadImap(d), tail |-> d[0][SB_TAIL],
     sb |-> d[0]]

Init ==
    /\ disk = MkfsImage
    /\ sb = MkfsImage[0]
    /\ inode_map = LoadImap(MkfsImage)
    /\ log_tail = MkfsImage[0][SB_TAIL]
    /\ mounted = TRUE
    /\ last = NoRequest
    /\ gcpre = NoSnapshot
    /\ crashpre = NoSnapshot
    /\ nops = 0

Succeeded(rec, ret) ==
    IF rec.op = "write" THEN ret = rec.len ELSE ret = 0

\* the state a request leaves: that of st, or a dead process (died names
\* how it died) and the disk as it left it
Finish(st, rec, died, snap) ==
    /\ disk' = st.disk
    /\ gcpre' = st.gcpre
    /\ crashpre' = snap
    /\ nops' = nops + 1
    /\ IF st.dead
       THEN /\ mounted' = FALSE
            /\ sb' = ZeroBlock
            /\ inode_map' = ZeroImap
            /\ log_tail' = 0
            /\ last' = [rec EXCEPT !.op = died, !.phase = 0,
                                   !.inplace = st.inplace, !.cw = st.cw,
                                   !.same = (st.disk = disk),
                                   !.ckpt = st.ckpt, !.gcerr = st.gcerr,
                                   !.na = st.na]
       ELSE /\ mounted' = TRUE
            /\ sb' = st.sb
            /\ inode_map' = st.imap
            /\ log_tail' = st.tail
            /\ last' = [rec EXCEPT !.ret = st.ret,
                                   !.phase = IF Succeeded(rec, st.ret)
                                             THEN rec.phase ELSE 0,
                                   !.inplace = st.inplace, !.cw = st.cw,
                                   !.same = /\ st.disk = disk
                                            /\ st.sb = sb
                                            /\ st.imap = inode_map
                                            /\ st.tail = log_tail,
                                   !.ckpt = st.ckpt, !.gcerr = st.gcerr,
                                   !.na = st.na]

\* a request run to its end; with ab, an out-of-bounds read of inode_map
\* aborts the process
Served(st, ab, rec) ==
    /\ ab => st.ubhit
    /\ Finish(st, rec, "abort", NoSnapshot)

CreatePaths == {NameA, NameB}
WritePaths == {NameHello, NameA}
TruncatePaths == {NameHello, NameA}
Fills == {100, 200}
WriteShapes ==
    {<<0, 3>>, <<0, BLOCK_SIZE>>, <<BLOCK_SIZE - 2, 4>>}

Create(path) ==
    /\ mounted
    /\ nops < MaxOps
    /\ \E ab \in BOOLEAN :
         Served(lfs_create(Start(NoStop, ab), path), ab,
                Request("create", path, 0, 0, 0, 1))

Write(path, off, len, fill) ==
    /\ mounted
    /\ nops < MaxOps
    /\ \E ab \in BOOLEAN :
         Served(lfs_write(Start(NoStop, ab), path, fill, len, off), ab,
                Request("write", path, off, len, fill,
                        IF off = 0 /\ last.phase = 1 /\ last.path = path
                        THEN 2 ELSE 0))

Truncate(path) ==
    /\ mounted
    /\ nops < MaxOps
    /\ \E ab \in BOOLEAN :
         Served(lfs_truncate(Start(NoStop, ab), path, 0), ab,
                Request("truncate", path, 0, 0, 0, 0))

Unmounted(st) ==
    /\ disk' = st.disk
    /\ mounted' = FALSE
    /\ sb' = ZeroBlock
    /\ inode_map' = ZeroImap
    /\ log_tail' = 0
    /\ last' = [last EXCEPT !.op = "unmount",
                            !.phase = IF last.phase = 2 THEN 3 ELSE 0]
    /\ gcpre' = NoSnapshot
    /\ crashpre' = NoSnapshot
    /\ UNCHANGED nops

Unmount ==
    /\ mounted
    /\ Unmounted(lfs_destroy(Start(NoStop, FALSE)))

Mount ==
    /\ ~mounted
    /\ lfs_init_ok(disk)
    /\ mounted' = TRUE
    /\ sb' = disk[0]
    /\ inode_map' = LoadImap(disk)
    /\ log_tail' = disk[0][SB_TAIL]
    /\ last' = [last EXCEPT !.op = "mount",
                            !.phase = IF last.phase = 3 THEN 4 ELSE 0]
    /\ UNCHANGED <<disk, gcpre, crashpre, nops>>

Next ==
    \/ \E p \in CreatePaths : Create(p)
    \/ \E p \in WritePaths, sh \in WriteShapes, f \in Fills :
         Write(p, sh[1], sh[2], f)
    \/ \E p \in TruncatePaths : Truncate(p)
    \/ Unmount
    \/ Mount

Spec == Init /\ [][Next]_vars

(***************************************************************************)
(* Views of the current state used by the properties.                      *)
(***************************************************************************)
Cur == Start(NoStop, FALSE)

\* a snapshot (gcpre, crashpre) as a handler state
AsState(snap) ==
    [disk |-> snap.disk, sb |-> snap.sb, imap |-> snap.imap,
     tail |-> snap.tail, nw |-> 0, stop |-> NoStop, dead |-> FALSE,
     ubabort |-> FALSE, ubhit |-> FALSE, ret |-> 0, gcpre |-> NoSnapshot,
     inplace |-> FALSE, concl |-> FALSE, cw |-> FALSE, fail |-> NoStop,
     werr |-> 0, ckpt |-> "none", gcerr |-> FALSE, bad |-> NoBlock, na |-> 0]

\* C1: a successful write(p, offset, buf) followed immediately by
\* read(p, offset, length) returns exactly the bytes just written.
C1_WriteThenReadReturnsWritten ==
    (mounted /\ last.op = "write" /\ last.ret > 0) =>
       LET r == lfs_read(Cur, last.path, last.ret, last.off)
       IN /\ r.ret = last.ret
          /\ \A k \in 1 .. last.ret : r.data[k] = Payload(last.fill, k - 1)

(***************************************************************************)
(* One-block overwrites of one file, from the formatter's image: of the    *)
(* seeded file, or of a file created first.                                *)
(***************************************************************************)
MaxOverwrites == 14

Overwrite(path, fill) ==
    /\ mounted
    /\ nops < MaxOverwrites
    /\ \/ last.op = "init" /\ path = NameHello
       \/ last.op = "create" /\ path = last.path
       \/ last.op = "write" /\ path = last.path
    /\ \E ab \in BOOLEAN :
         Served(lfs_write(Start(NoStop, ab), path, fill, BLOCK_SIZE, 0), ab,
                Request("write", path, 0, BLOCK_SIZE, fill, 0))

NextOverwrite ==
    \/ (last.op = "init" /\ Create(NameA))
    \/ \E p \in WritePaths, f \in Fills : Overwrite(p, f)

SpecOverwrite == Init /\ [][NextOverwrite]_vars

\* C2: in a sequence of one-block overwrites of the same file, starting from
\* the formatter's image, no write returns no-space (the cleaner reclaims
\* the dead blocks, so the tail never reaches total_blocks).
C2_OverwritesNeverRunOutOfSpace ==
    (last.op = "write") => (last.ret # -ENOSPC /\ log_tail < TOTAL_BLOCKS)

(***************************************************************************)
(* The cleaner called on its own (gc_collect is exported by lfs.h), among  *)
(* the requests.                                                           *)
(***************************************************************************)
MaxGcOps == 3

GcCollect ==
    /\ mounted
    /\ nops <= MaxGcOps
    /\ \E ab \in BOOLEAN :
         Served(gc_collect(Start(NoStop, ab)), ab,
                Request("gc", 0, 0, 0, 0, 0))

NextGc ==
    \/ \E p \in CreatePaths : nops < MaxGcOps /\ Create(p)
    \/ \E p \in WritePaths, sh \in WriteShapes, f \in Fills :
         nops < MaxGcOps /\ Write(p, sh[1], sh[2], f)
    \/ \E p \in TruncatePaths : nops < MaxGcOps /\ Truncate(p)
    \/ Unmount
    \/ Mount
    \/ GcCollect

SpecGc == Init /\ [][NextGc]_vars

\* the state the last cleaning pass started from, and the one it left
GcBefore == AsState(gcpre)
GcAfter == gc_collect(AsState(gcpre))

\* the pass was one a create or a write ran, not a call of its own
GcInRequest == gcpre.valid /\ last.op \in {"create", "write"}

\* the bytes of logical block blk of inode ino, as lfs_read finds them
BlockOf(st, ino, blk) == ExistingBlock(st, inode_read(st, ino), blk)

Names == {NameHello, NameA, NameB}

\* C3: a successful gc_collect changes no logical content: every name of
\* the root directory resolves to the same inode number as before, and every
\* allocated inode can still be read and has the same type, the same size
\* and the same bytes at every logical block.
C3_GcPreservesContent ==
    (GcInRequest /\ GcAfter.ret = 0) =>
       /\ \A n \in Names :
            path_to_inode(GcAfter, n) = path_to_inode(GcBefore, n)
       /\ \A i \in Inos :
            inode_read_ok(GcBefore, i) =>
               /\ inode_read_ok(GcAfter, i)
               /\ inode_read(GcAfter, i)[I_TYPE]
                    = inode_read(GcBefore, i)[I_TYPE]
               /\ inode_read(GcAfter, i)[I_SIZE]
                    = inode_read(GcBefore, i)[I_SIZE]
               /\ \A blk \in 0 .. (MAX_DIRECT_PTRS - 1) :
                    BlockOf(GcAfter, i, blk) = BlockOf(GcBefore, i, blk)

\* C4: in every reachable state, for every inode number i, if the in-memory
\* inode map entry map[i] is nonzero then block map[i] of the disk holds an
\* inode record whose inode_no field is i.
C4_MapEntryHoldsItsInode ==
    mounted =>
       \A i \in Inos :
          inode_map[i] # 0 =>
             /\ inode_map[i] \in Blocks
             /\ disk[inode_map[i]][I_INO] = i

\* C6: after create(p), write(p, 0, data), unmount and mount,
\* read(p, 0, len(data)) returns data.
C6_CreateWriteRemountRead ==
    (mounted /\ last.phase = 4) =>
       LET r == lfs_read(Cur, last.path, last.len, 0)
       IN /\ r.ret = last.len
          /\ \A k \in 1 .. last.len : r.data[k] = Payload(last.fill, k - 1)

\* C7: no create, write or truncate, in any disk write it performs (an
\* append, the summary update inside an append, a cleaning pass), changes
\* the content of a log block that is live when it is written.
C7_LiveBlocksNeverOverwritten ==
    (last.op \in {"create", "write", "truncate"}) => ~last.inplace

\* C8: after a successful gc_collect that found the tail at old_tail and
\* left it at new_tail, every block of [LOG_START_BLOCK, new_tail) is live
\* and every block of [new_tail, old_tail) is dead.
C8_GcLeavesLogCompact ==
    (GcInRequest /\ GcAfter.ret = 0) =>
       /\ \A b \in LOG_START_BLOCK .. (GcAfter.tail - 1) :
            is_block_live(GcAfter, b)
       /\ \A b \in GcAfter.tail .. (GcBefore.tail - 1) :
            ~is_block_live(GcAfter, b)

\* C9: the tail after a successful gc_collect is at most the tail before.
C9_GcNeverIncreasesTail ==
    (GcInRequest /\ GcAfter.ret = 0) => GcAfter.tail <= GcBefore.tail

\* no block of the log region is dead
NoDeadBlock(st) ==
    \A b \in LOG_START_BLOCK .. (st.tail - 1) : is_block_live(st, b)

\* C10: when no block of the log region is dead, gc_collect returns success
\* and leaves the tail, the in-memory inode map and every disk block
\* unchanged.
C10_GcWithoutDeadBlocksIsNoOp ==
    (gcpre.valid /\ NoDeadBlock(GcBefore)) =>
       /\ GcAfter.ret = 0
       /\ GcAfter.tail = GcBefore.tail
       /\ GcAfter.imap = GcBefore.imap
       /\ GcAfter.disk = GcBefore.disk
       /\ GcAfter.sb = GcBefore.sb

C10_Witness ==
    /\ last.op = "gc"
    /\ mounted
    /\ gcpre.valid
    /\ NoDeadBlock(GcBefore)
    /\ gcpre.tail > LOG_START_BLOCK
    /\ gc_best_seg(GcBefore) >= 0
    /\ last.ret = 0
    /\ disk = gcpre.disk

(***************************************************************************)
(* Crashes.  The process is killed inside a request, after c of its disk   *)
(* writes; the disk keeps what was written.  crashpre is what a mount      *)
(* would have loaded from the disk as the request found it.                *)
(***************************************************************************)
MaxCrashOps == 3

Killed(st, rec) ==
    /\ st.dead
    /\ Finish(st, rec, "crash", Durable(disk))

CrashCreate(path, c) ==
    /\ mounted
    /\ nops < MaxCrashOps
    /\ Killed(lfs_create(Start(c, FALSE), path),
              Request("create", path, 0, 0, 0, 0))

CrashWrite(path, off, len, fill, c) ==
    /\ mounted
    /\ nops < MaxCrashOps
    /\ Killed(lfs_write(Start(c, FALSE), path, fill, len, off),
              Request("write", path, off, len, fill, 0))

CrashTruncate(path, c) ==
    /\ mounted
    /\ nops < MaxCrashOps
    /\ Killed(lfs_truncate(Start(c, FALSE), path, 0),
              Request("truncate", path, 0, 0, 0, 0))

NextCrash ==
    \/ \E p \in CreatePaths : nops < MaxCrashOps /\ Create(p)
    \/ \E p \in WritePaths, sh \in WriteShapes, f \in Fills :
         nops < MaxCrashOps /\ Write(p, sh[1], sh[2], f)
    \/ \E p \in TruncatePaths : nops < MaxCrashOps /\ Truncate(p)
    \/ Unmount
    \/ Mount
    \/ \E p \in CreatePaths, c \in 0 .. MaxCrashPoint : CrashCreate(p, c)
    \/ \E p \in WritePaths, sh \in WriteShapes, f \in Fills,
          c \in 0 .. MaxCrashPoint : CrashWrite(p, sh[1], sh[2], f, c)
    \/ \E p \in TruncatePaths, c \in 0 .. MaxCrashPoint : CrashTruncate(p, c)

SpecCrash == Init /\ [][NextCrash]_vars

\* the blocks reachable from the inode map of a snapshot
Reachable(snap) ==
    LET mapped == {snap.imap[i] : i \in {j \in Inos : snap.imap[j] # 0}}
        pointed == {Direct(snap.disk[b], k) :
                      b \in mapped \cap Blocks,
                      k \in 0 .. (MAX_DIRECT_PTRS - 1)}
    IN mapped \cup (pointed \ {0})

\* C5: if the process is killed inside a create, a write or a truncate
\* before any write of the checkpoint that concludes the request, a mount of
\* the disk loads the tail and the inode map of the last checkpoint, and
\* every block reachable from that inode map holds what it held then.
C5_CrashBeforeCheckpointLosesRequest ==
    (last.op = "crash" /\ ~last.cw) =>
       /\ Durable(disk).tail = crashpre.tail
       /\ Durable(disk).imap = crashpre.imap
       /\ \A b \in Reachable(crashpre) \cap Blocks :
            disk[b] = crashpre.disk[b]

(***************************************************************************)
(* Requests during which one write of the disk fails: pwrite returns an    *)
(* error, the block keeps what it held and disk_write returns -1.          *)
(***************************************************************************)
MaxFaultOps == 2
MaxFaultPoint == 7

Faulted(st, rec) ==
    /\ st.nw > st.fail
    /\ Finish(st, rec, "abort", NoSnapshot)

FaultCreate(path, k) ==
    /\ mounted
    /\ nops < MaxFaultOps
    /\ Faulted(lfs_create(StartFailing(k), path),
               Request("create", path, 0, 0, 0, 0))

FaultWrite(path, off, len, fill, k) ==
    /\ mounted
    /\ nops < MaxFaultOps
    /\ Faulted(lfs_write(StartFailing(k), path, fill, len, off),
               Request("write", path, off, len, fill, 0))

FaultTruncate(path, k) ==
    /\ mounted
    /\ nops < MaxFaultOps
    /\ Faulted(lfs_truncate(StartFailing(k), path, 0),
               Request("truncate", path, 0, 0, 0, 0))

NextFault ==
    \/ \E p \in CreatePaths : nops < MaxFaultOps /\ Create(p)
    \/ \E p \in WritePaths, sh \in WriteShapes, f \in Fills :
         nops < MaxFaultOps /\ Write(p, sh[1], sh[2], f)
    \/ \E p \in TruncatePaths : nops < MaxFaultOps /\ Truncate(p)
    \/ Unmount
    \/ Mount
    \/ \E p \in CreatePaths, k \in 0 .. MaxFaultPoint : FaultCreate(p, k)
    \/ \E p \in WritePaths, sh \in WriteShapes, f \in Fills,
          k \in 0 .. MaxFaultPoint : FaultWrite(p, sh[1], sh[2], f, k)
    \/ \E p \in TruncatePaths, k \in 0 .. MaxFaultPoint : FaultTruncate(p, k)

SpecFault == Init /\ [][NextFault]_vars

\* C11: right after a checkpoint that succeeded, the tail field of the
\* superblock in block 0 equals the tail in memory and the inode map in the
\* inode-map block equals the inode map in memory, entry for entry: after a
\* create, a write or a truncate whose concluding checkpoint succeeded, and
\* for the checkpoint lfs_destroy would take in any mounted state.
C11_CheckpointMirrorsMemory ==
    /\ (mounted /\ last.ckpt = "ok") =>
          /\ disk[0][SB_TAIL] = log_tail
          /\ LoadImap(disk) = inode_map
    /\ (mounted /\ lfs_destroy(Cur).ret = 0) =>
          /\ lfs_destroy(Cur).disk[0][SB_TAIL] = log_tail
          /\ LoadImap(lfs_destroy(Cur).disk) = inode_map

C11_Witness ==
    /\ mounted
    /\ last.op = "create"
    /\ last.ckpt = "ok"
    /\ log_tail > MKFS_TAIL
    /\ disk[0][SB_TAIL] = log_tail
    /\ inode_map[1] # 0
    /\ LoadImap(disk) = inode_map

\* C12: in every state reached from the image the formatter writes, the
\* log tail lies between the first log block and the number of blocks.
C12_TailWithinLog ==
    mounted => (LOG_START_BLOCK <= log_tail /\ log_tail <= TOTAL_BLOCKS)

\* the allocated inodes of type file
FileInodes ==
    {i \in Inos : /\ inode_map[i] # 0
                  /\ inode_read_ok(Cur, i)
                  /\ inode_read(Cur, i)[I_TYPE] = INODE_TYPE_FILE}

\* C13: in every state reached from the image the formatter writes, every
\* nonzero direct pointer of every allocated inode of type file names a
\* block from the first log block up to, not including, the tail.
C13_FilePointersWithinLog ==
    mounted =>
      \A i \in FileInodes, k \in 0 .. (MAX_DIRECT_PTRS - 1) :
        Direct(inode_read(Cur, i), k) # 0 =>
          /\ LOG_START_BLOCK <= Direct(inode_read(Cur, i), k)
          /\ Direct(inode_read(Cur, i), k) < log_tail

\* the data append of a write of path would find the log full: the path
\* names a file, and the cleaning pass the write runs first (the free space
\* being below the threshold) leaves the tail at the end of the device
DataAppendMeetsFullLog(path) ==
    /\ path_to_inode(Cur, path) >= 0
    /\ inode_read_ok(Cur, path_to_inode(Cur, path))
    /\ inode_read(Cur, path_to_inode(Cur, path))[I_TYPE] = INODE_TYPE_FILE
    /\ gc_should_run(Cur)
    /\ gc_collect(Cur).tail = TOTAL_BLOCKS
    /\ inode_read_ok(gc_collect(Cur), path_to_inode(Cur, path))

\* C14: a log append called when the tail equals the number of blocks
\* fails, writes no block and leaves the tail and the inode map as they
\* were; a write whose data append fails in this way returns -ENOSPC.
C14_AppendAtFullLogFails ==
    (mounted /\ log_tail = TOTAL_BLOCKS) =>
      /\ \A i \in Inos, k \in 0 .. (MAX_DIRECT_PTRS - 1) :
           /\ log_append_ex(Cur, disk[INODE_MAP_BLOCK], i, k).ret < 0
           /\ log_append_ex(Cur, disk[INODE_MAP_BLOCK], i, k).nw = 0
           /\ log_append_ex(Cur, disk[INODE_MAP_BLOCK], i, k).disk = disk
           /\ log_append_ex(Cur, disk[INODE_MAP_BLOCK], i, k).tail = log_tail
           /\ log_append_ex(Cur, disk[INODE_MAP_BLOCK], i, k).imap = inode_map
      /\ \A p \in WritePaths, f \in Fills :
           DataAppendMeetsFullLog(p) =>
             lfs_write(Cur, p, f, BLOCK_SIZE, 0).ret = -ENOSPC

C14_Witness ==
    /\ mounted
    /\ log_tail = TOTAL_BLOCKS
    /\ last.op = "write"
    /\ last.ret = -ENOSPC
    /\ DataAppendMeetsFullLog(last.path)

\* C15: a create of a name that resolves under the root returns -EEXIST
\* and changes nothing: no block is written, and the tail, the inode map
\* in memory and every block of the disk are as before the call.
C15_CreateExistingChangesNothing ==
    mounted =>
      /\ \A p \in Names :
           path_to_inode(Cur, p) >= 0 =>
             /\ lfs_create(Cur, p).ret = -EEXIST
             /\ lfs_create(Cur, p).nw = 0
             /\ lfs_create(Cur, p).disk = disk
             /\ lfs_create(Cur, p).tail = log_tail
             /\ lfs_create(Cur, p).imap = inode_map
      /\ (last.op = "create" /\ last.ret = -EEXIST) => last.same

C15_Witness ==
    /\ mounted
    /\ last.op = "create"
    /\ last.ret = -EEXIST
    /\ last.same
    /\ path_to_inode(Cur, last.path) >= 1

\* the lowest inode number from 1 on whose inode map entry is zero
LowestFree ==
    CHOOSE i \in Inos \ {0} :
      /\ inode_map[i] = 0
      /\ \A j \in Inos \ {0} : j < i => inode_map[j] # 0

\* C16: after a create of p that succeeded, p resolves to an inode of type
\* file with size 0, link count 1 and every direct pointer zero, whose
\* number is the lowest from 1 on that had a zero inode map entry before
\* the call, and every name that resolved before the call resolves to the
\* same inode number, whether or not the create ran a cleaning pass.
C16_CreateMakesEmptyFile ==
    mounted =>
      \A p \in CreatePaths :
        LET r == lfs_create(Cur, p)
            ino == path_to_inode(r, p)
        IN r.ret = 0 =>
             /\ ino >= 1
             /\ ino = LowestFree
             /\ inode_read_ok(r, ino)
             /\ inode_read(r, ino)[I_TYPE] = INODE_TYPE_FILE
             /\ inode_read(r, ino)[I_SIZE] = 0
             /\ inode_read(r, ino)[I_NLINKS] = 1
             /\ \A k \in 0 .. (MAX_DIRECT_PTRS - 1) :
                  Direct(inode_read(r, ino), k) = 0
             /\ \A q \in Names :
                  path_to_inode(Cur, q) >= 0 =>
                    path_to_inode(r, q) = path_to_inode(Cur, q)

(***************************************************************************)
(* Writes at the end of the largest file: the last byte, a buffer that     *)
(* reaches beyond it, and offsets at and beyond the limit.                 *)
(***************************************************************************)
MaxEdgeOps == 3
MAX_FILE_SIZE == MAX_DIRECT_PTRS * BLOCK_SIZE
EdgeShapes ==
    {<<MAX_FILE_SIZE - 1, 1>>, <<MAX_FILE_SIZE - 2, 4>>,
     <<MAX_FILE_SIZE, 1>>, <<MAX_FILE_SIZE + 3, 2>>}

NextEdge ==
    \/ \E p \in CreatePaths : nops < MaxEdgeOps /\ Create(p)
    \/ \E p \in WritePaths, sh \in WriteShapes \cup EdgeShapes, f \in Fills :
         nops < MaxEdgeOps /\ Write(p, sh[1], sh[2], f)
    \/ \E p \in TruncatePaths : nops < MaxEdgeOps /\ Truncate(p)
    \/ Unmount
    \/ Mount

SpecEdge == Init /\ [][NextEdge]_vars

\* path names an allocated inode of type file
IsFile(path) ==
    /\ path_to_inode(Cur, path) >= 0
    /\ path_to_inode(Cur, path) \in FileInodes

C18_WriteTwiceIsWriteOnce ==
    (mounted /\ last.op = "write" /\ last.ret > 0) =>
      LET twice == lfs_write(Cur, last.path, last.fill, last.len, last.off)
      IN twice.ret = last.ret =>
           /\ lfs_getattr(twice, last.path) = lfs_getattr(Cur, last.path)
           /\ lfs_read(twice, last.path, MAX_FILE_SIZE, 0)
                = lfs_read(Cur, last.path, MAX_FILE_SIZE, 0)

\* C19: after a truncate of a file to size 0 that succeeded, getattr of
\* the path reports size 0, every direct pointer of the inode is zero and
\* a read of the path at any offset with any length returns 0 bytes.
C19_TruncateEmptiesFile ==
    mounted =>
      \A p \in TruncatePaths :
        LET r == lfs_truncate(Cur, p, 0)
            ino == path_to_inode(r, p)
        IN (IsFile(p) /\ r.ret = 0) =>
             /\ lfs_getattr(r, p).ret = 0
             /\ lfs_getattr(r, p).st_size = 0
             /\ \A k \in 0 .. (MAX_DIRECT_PTRS - 1) :
                  Direct(inode_read(r, ino), k) = 0
             /\ \A sh \in WriteShapes \cup EdgeShapes :
                  lfs_read(r, p, sh[2], sh[1]).ret = 0

\* C20: when the checkpoint that concludes a create, a write or a truncate
\* fails, because the write of the inode-map block or that of the
\* superblock fails, the request returns -EIO: not success and no other
\* error.
C20_FailedCheckpointIsIoError ==
    (mounted /\ last.op \in {"create", "write", "truncate"}
             /\ last.ckpt = "failed") =>
      last.ret = -EIO

(***************************************************************************)
(* A create or a write that runs a cleaning pass while one write of the    *)
(* disk fails, after up to MaxGcFaultOps requests without a failure.       *)
(***************************************************************************)
MaxGcFaultOps == 4

GcFaultCreate(path, k) ==
    /\ mounted
    /\ nops <= MaxGcFaultOps
    /\ gc_should_run(Cur)
    /\ Faulted(lfs_create(StartFailing(k), path),
               Request("create", path, 0, 0, 0, 0))

GcFaultWrite(path, off, len, fill, k) ==
    /\ mounted
    /\ nops <= MaxGcFaultOps
    /\ gc_should_run(Cur)
    /\ Faulted(lfs_write(StartFailing(k), path, fill, len, off),
               Request("write", path, off, len, fill, 0))

NextGcFault ==
    \/ \E p \in CreatePaths : nops < MaxGcFaultOps /\ Create(p)
    \/ \E p \in WritePaths, sh \in WriteShapes, f \in Fills :
         nops < MaxGcFaultOps /\ Write(p, sh[1], sh[2], f)
    \/ \E p \in TruncatePaths : nops < MaxGcFaultOps /\ Truncate(p)
    \/ Unmount
    \/ Mount
    \/ \E p \in CreatePaths, k \in 0 .. MaxFaultPoint : GcFaultCreate(p, k)
    \/ \E p \in WritePaths, sh \in WriteShapes, f \in Fills,
          k \in 0 .. MaxFaultPoint : GcFaultWrite(p, sh[1], sh[2], f, k)

SpecGcFault == Init /\ [][NextGcFault]_vars

\* C21: when a gc_collect that a create or a write runs returns an error,
\* the request stops and returns -EIO: it appends no further block and
\* does not report success.
C21_GcErrorAbortsRequest ==
    (mounted /\ last.op \in {"create", "write"} /\ last.gcerr) =>
      last.ret = -EIO

(***************************************************************************)
(* Requests during which the reads of one block fail, the block being one  *)
(* the request reads without testing the result: the existing content of   *)
(* the first data block a write touches, or the summary block of the       *)
(* segment the first append of a write or a create goes to.                *)
(***************************************************************************)
MaxBadOps == 3

\* the block that holds the first logical block a write at off touches
TouchedBlock(path, off) ==
    Direct(inode_read(Cur, path_to_inode(Cur, path)), off \div BLOCK_SIZE)

BadDataWrite(path, off, len, fill) ==
    /\ mounted
    /\ nops < MaxBadOps
    /\ IsFile(path)
    /\ TouchedBlock(path, off) \in Blocks \ {0}
    /\ Finish(lfs_write(StartBad(TouchedBlock(path, off)), path, fill, len,
                        off),
              [Request("write", path, off, len, fill, 0)
                 EXCEPT !.bad = TouchedBlock(path, off)],
              "abort", NoSnapshot)

\* the first append of the next request updates a summary
AppendReadsSummary ==
    /\ ~gc_should_run(Cur)
    /\ log_tail < TOTAL_BLOCKS
    /\ log_tail # get_summary_block(log_tail)

BadSummaryWrite(path, off, len, fill) ==
    /\ mounted
    /\ nops < MaxBadOps
    /\ IsFile(path)
    /\ AppendReadsSummary
    /\ Finish(lfs_write(StartBad(get_summary_block(log_tail)), path, fill,
                        len, off),
              [Request("write", path, off, len, fill, 0)
                 EXCEPT !.bad = get_summary_block(log_tail)],
              "abort", NoSnapshot)

BadSummaryCreate(path) ==
    /\ mounted
    /\ nops < MaxBadOps
    /\ path_to_inode(Cur, path) = -ENOENT
    /\ inode_alloc(Cur) >= 0
    /\ AppendReadsSummary
    /\ Finish(lfs_create(StartBad(get_summary_block(log_tail)), path),
              [Request("create", path, 0, 0, 0, 0)
                 EXCEPT !.bad = get_summary_block(log_tail)],
              "abort", NoSnapshot)

NextBad ==
    \/ \E p \in CreatePaths : nops < MaxBadOps /\ Create(p)
    \/ \E p \in WritePaths, sh \in WriteShapes, f \in Fills :
         nops < MaxBadOps /\ Write(p, sh[1], sh[2], f)
    \/ \E p \in TruncatePaths : nops < MaxBadOps /\ Truncate(p)
    \/ Unmount
    \/ Mount
    \/ \E p \in WritePaths, sh \in WriteShapes, f \in Fills :
         BadDataWrite(p, sh[1], sh[2], f)
    \/ \E p \in WritePaths, sh \in WriteShapes, f \in Fills :
         BadSummaryWrite(p, sh[1], sh[2], f)
    \/ \E p \in CreatePaths : BadSummaryCreate(p)

SpecBad == Init /\ [][NextBad]_vars

\* C22: on the mutating paths a failed block read is surfaced: when the
\* read of the existing content of a data block a write touches fails, or
\* the read of the segment summary inside a log append fails, the request
\* returns an error; it does not go on with a zero-filled buffer.
C22_FailedReadIsSurfaced ==
    (mounted /\ last.op \in {"create", "write"} /\ last.bad # NoBlock) =>
      last.ret < 0

\* C23: log append never stores a caller's block at a segment-summary
\* position: the block number a successful append returns is never the first
\* block of a segment at or after the start of the log.
C23_AppendAvoidsSummaryPosition ==
    mounted =>
      LET block == log_append(Cur, ZeroBlock).ret
      IN  block >= LOG_START_BLOCK => block # get_summary_block(block)

\* the bytes of the file of path before a write of size bytes of fill at
\* offset, overlaid with those bytes; holes and the gap beyond the old end
\* read as zeros
Overlaid(old, fill, size, offset) ==
    [k \in 1 .. Max(old.ret, offset + size) |->
       IF k - 1 >= offset /\ k - 1 < offset + size
       THEN Payload(fill, k - 1 - offset)
       ELSE IF k <= old.ret THEN old.data[k] ELSE 0]

\* C24: a successful write(p, offset, buf) produces exactly the old file
\* overlaid with buf: the size becomes max(old size, offset + len) and every
\* byte outside [offset, offset + len) reads as before the write, also when
\* a cleaning pass runs in the middle of a write of several blocks.
C24_WriteOverlaysOldFile ==
    mounted =>
      \A p \in WritePaths, sh \in WriteShapes, f \in Fills :
        LET w == lfs_write(Cur, p, f, sh[2], sh[1])
        IN (IsFile(p) /\ w.ret > 0) =>
             /\ lfs_read(w, p, MAX_FILE_SIZE, 0).ret
                  = Max(lfs_read(Cur, p, MAX_FILE_SIZE, 0).ret, sh[1] + w.ret)
             /\ lfs_read(w, p, MAX_FILE_SIZE, 0).data
                  = Overlaid(lfs_read(Cur, p, MAX_FILE_SIZE, 0), f, w.ret,
                             sh[1])

\* C25: the in-memory tail increases only inside a successful log append,
\* by exactly one per append, the append returning the tail it found as the
\* block number; it decreases only inside gc_collect; a checkpoint, whether
\* its writes succeed or fail, leaves the tail and the in-memory inode map
\* as they were.  (inode_read, inode_alloc, lfs_getattr, lfs_readdir and
\* lfs_read assign nothing of g_state and return values only.)
C25_TailMovesInAppendAndGcOnly ==
    [][(mounted /\ mounted') =>
         /\ log_tail' <= log_tail + last'.na
         /\ ~gcpre'.valid => log_tail' = log_tail + last'.na
         /\ log_append(Cur, ZeroBlock).ret >= 0 =>
              /\ log_append(Cur, ZeroBlock).ret = log_tail
              /\ log_append(Cur, ZeroBlock).tail = log_tail + 1
         /\ log_append(Cur, ZeroBlock).ret < 0 =>
              log_append(Cur, ZeroBlock).tail = log_tail
         /\ log_append(StartFailing(0), ZeroBlock).ret < 0
         /\ log_append(StartFailing(0), ZeroBlock).tail = log_tail
         /\ gc_collect(Cur).tail <= log_tail + gc_collect(Cur).na
         /\ \A k \in {0, 1, NoStop} :
              /\ log_checkpoint(StartFailing(k)).tail = log_tail
              /\ log_checkpoint(StartFailing(k)).imap = inode_map]_vars

\* a request in which an append succeeded and a later one failed, after
\* which a cleaning pass would bring the tail down
C25_Witness ==
    /\ mounted
    /\ last.op \in {"create", "write"}
    /\ last.ret < 0
    /\ last.na >= 1
    /\ ~gcpre.valid
    /\ gc_collect(Cur).tail < log_tail

(***************************************************************************)
(* Long runs of requests with one payload, so that the log fills, cleaning *)
(* passes run inside requests and some of them rewind the tail.            *)
(***************************************************************************)
MaxLongOps == 12

NextLong ==
    \/ \E p \in CreatePaths : nops < MaxLongOps /\ Create(p)
    \/ \E p \in WritePaths, sh \in WriteShapes :
         nops < MaxLongOps /\ Write(p, sh[1], sh[2], 100)
    \/ \E p \in TruncatePaths : nops < MaxLongOps /\ Truncate(p)

SpecLong == Init /\ [][NextLong]_vars

C27_NamesNeverDisappear ==
    mounted =>
      \A p \in Names :
        path_to_inode(Cur, p) >= 0 =>
          \A q \in TruncatePaths \cup {PathRoot} :
            LET r == lfs_truncate(Cur, q, 0)
            IN /\ path_to_inode(r, p) = path_to_inode(Cur, p)
               /\ r.imap[0] # 0
               /\ inode_read_ok(r, 0)
               /\ inode_read(r, 0)[I_TYPE] = INODE_TYPE_DIR

\* the slots of the root directory that are in use and name inode ino
RootEntriesOf(st, ino) ==
    {j \in DirSlots(inode_read(st, 0)[I_SIZE]) :
       DirentIno(st.disk[Direct(inode_read(st, 0), 0)], j) = ino}

\* C28: between requests every nonzero inode-map entry i >= 1 is named by
\* exactly one entry of the root directory, and every entry of the root
\* directory that is in use names an inode whose map entry is nonzero; a
\* create that fails leaves the in-memory inode map as it was.
C28_MapAndDirectoryAgree ==
    (mounted /\ inode_read_ok(Cur, 0)
             /\ disk_read_ok(Cur, Direct(inode_read(Cur, 0), 0))) =>
      /\ \A i \in Inos \ {0} :
           inode_map[i] # 0 => Cardinality(RootEntriesOf(Cur, i)) = 1
      /\ \A i \in 1 .. (BLOCK_SIZE - 1) :
           RootEntriesOf(Cur, i) # {} => i \in Inos /\ inode_map[i] # 0
      /\ \A p \in CreatePaths :
           lfs_create(Cur, p).ret < 0 => lfs_create(Cur, p).imap = inode_map

=============================================================================
